---- MODULE Spec2Model ----
(***************************************************************************)
(* Model of cmds/installd/otapreopt_chroot.cpp: the sequence of namespace, *)
(* mount, chroot, APEX activation, Bionic bind-mount, Exec and APEX        *)
(* deactivation steps performed by otapreopt_chroot(argc, arg).            *)
(*                                                                         *)
(* Every external call (close, unshare, mount, restorecon, chmod, chown,   *)
(* chdir, chroot, access, the apex library, Exec) is appended to `ops`     *)
(* together with its arguments and its outcome; the outcome is chosen      *)
(* nondeterministically.  `pc` is the position in otapreopt_chroot.        *)
(***************************************************************************)
EXTENDS Integers, Sequences, FiniteSets, TLC

\* ---------------------------------------------------------------- bounds
MaxArgc == 4
MaxPackages == 2

\* ------------------------------------------------------------- constants
kLinkerMountPoint == "/bionic/bin/linker"
kRuntimeLinkerPath == "/apex/com.android.runtime/bin/linker"
kBionicLibsMountPointDir == "/bionic/lib/"
kRuntimeBionicLibsDir == "/apex/com.android.runtime/lib/bionic/"
kLinkerMountPoint64 == "/bionic/bin/linker64"
kRuntimeLinkerPath64 == "/apex/com.android.runtime/bin/linker64"
kBionicLibsMountPointDir64 == "/bionic/lib64/"
kRuntimeBionicLibsDir64 == "/apex/com.android.runtime/lib64/bionic/"
kBionicLibFileNames == <<"libc.so", "libm.so", "libdl.so">>
kBindMounts == <<"/data", "/dev", "/proc", "/sys">>
kPostinstallApexDir == "/postinstall/apex"
kApexPackageSystemDir == "/system/apex"
kOtapreoptPath == "/system/bin/otapreopt"

STDIN_FILENO == 0
STDOUT_FILENO == 1
STDERR_FILENO == 2
INT_MAX == 2147483647

\* exit(...) codes, one per failure site of otapreopt_chroot
ExitNotEnoughArgs == 208
ExitUnshare == 200
ExitMountPrivate == 201
ExitBindMount == 202
ExitSlotSuffix == 207
ExitTmpfs == 209
ExitRestorecon == 214
ExitChmod == 210
\* ExitChown with the code of the chmod site repeated.
ExitChown_Duplicate == ExitChmod
ExitChown == 211
ExitChdirPostinstall == 203
ExitChroot == 204
ExitChdirRoot == 205
ExitBionic32 == 215
ExitBionic64 == 216
ExitExec == 213
ExitSuccess == 0
Running == -1

\* ----------------------------------------------------------------- inputs
\* arg[1], the status-fd string, as its characters (arg[0] and arg[2..] are
\* kept as strings: they are only copied, compared and concatenated).
FdStrings == { <<"5">>, <<"x">> }
\* The status-fd strings a second run is given (PairSpec): also a negative
\* number, a number after blanks and before other characters, and a number
\* that does not fit an int.
OtherFdStrings ==
    FdStrings \cup
    { <<"-", "1">>, <<" ", "7", "x">>,
      <<"4", "2", "9", "4", "9", "6", "7", "2", "9", "6">> }
\* arg[2], the target slot suffix.
SlotSuffixes == {"_b", "", "/../sda1"}
\* arg[3], the sub-command, and arg[4..], its parameters, all forwarded to
\* otapreopt unread: arg[4], arg[5], ... are the entries of DexoptParams, so
\* that the forwarded arguments differ from each other.
SubCommand == "dexopt"
DexoptParams == <<"10", "speed", "quicken", "-">>
\* The records apex::getActivePackages() can return, named by their path.
ApexPaths == <<"/system/apex/com.android.runtime.apex",
               "/system/apex/com.android.tzdata.apex",
               "/system/apex/com.android.conscrypt.apex">>

\* first_run keeps the outcome of a completed run when the program is run a
\* second time (PairSpec); it is never read by the program.
VARIABLES argc, arg, pc, ops, exitCode, i, active_packages, variant,
          lib_it, apex_it, ret, cmd, exec_result, first_run

vars == <<argc, arg, pc, ops, exitCode, i, active_packages, variant,
          lib_it, apex_it, ret, cmd, exec_result, first_run>>

NoRun == [taken |-> FALSE, free |-> "none", ops |-> <<>>, exitCode |-> Running,
          active_packages |-> <<>>]

\* ---------------------------------------------------------------- helpers
\* One external call: its name, its (up to two) path arguments, a descriptor
\* number or -1, the argument vector or <<>>, and whether it succeeded.
Op(call, src, tgt, fd, argv, ok) ==
    [call |-> call, src |-> src, tgt |-> tgt, fd |-> fd, argv |-> argv, ok |-> ok]

Digits == <<"0", "1", "2", "3", "4", "5", "6", "7", "8", "9">>
IsDigit(c) == \E n \in 1..10 : Digits[n] = c
DigitVal(c) == (CHOOSE n \in 1..10 : Digits[n] = c) - 1

\* Number of leading decimal digits of s.
RECURSIVE DigitPrefixLen(_)
DigitPrefixLen(s) ==
    IF s = <<>> \/ ~IsDigit(Head(s)) THEN 0 ELSE 1 + DigitPrefixLen(Tail(s))

\* Value of a sequence of decimal digits, or -1 when it exceeds INT_MAX.
RECURSIVE DigitsValue(_, _)
DigitsValue(s, acc) ==
    IF s = <<>> THEN acc
    ELSE IF acc > (INT_MAX - DigitVal(Head(s))) \div 10 THEN -1
    ELSE DigitsValue(Tail(s), acc * 10 + DigitVal(Head(s)))

\* Leading whitespace is skipped by operator>>.
RECURSIVE SkipWs(_)
SkipWs(s) == IF s /= <<>> /\ Head(s) = " " THEN SkipWs(Tail(s)) ELSE s

\* `stream >> fd` for an int fd: optional sign, then at least one digit;
\* trailing characters are left unread.  failbit is set when no digits are
\* read or the value does not fit an int (the value is then clamped; a
\* negative one is shown as -INT_MAX, which its only reader tests for >= 0).
StreamExtractInt(str) ==
    LET s == SkipWs(str)
        neg == s /= <<>> /\ Head(s) = "-"
        signed == s /= <<>> /\ Head(s) \in {"-", "+"}
        body == IF signed THEN Tail(s) ELSE s
        n == DigitPrefixLen(body)
        mag == DigitsValue(SubSeq(body, 1, n), 0)
    IN  IF n = 0 THEN [fail |-> TRUE, value |-> 0]
        ELSE IF mag = -1
               THEN [fail |-> TRUE, value |-> IF neg THEN 0 - INT_MAX ELSE INT_MAX]
        ELSE [fail |-> FALSE, value |-> IF neg THEN 0 - mag ELSE mag]

\* The slot-suffix format validator (otapreopt_utils.h), a pure predicate.
ValidateTargetSlotSuffix(s) == s \in {"_a", "_b"}

\* The close() calls CloseDescriptor(int) makes: none for a negative fd.
CloseDescriptor(fd, ok) ==
    IF fd >= 0 THEN <<Op("close", "", "", fd, <<>>, ok)>> ELSE <<>>

\* CloseDescriptorString without the test of stream.fail().
CloseDescriptorString_NoFailCheck(descriptor_string, ok) ==
    CloseDescriptor(StreamExtractInt(descriptor_string).value, ok)

\* The close() calls CloseDescriptor(const char*) makes.
CloseDescriptorString(descriptor_string, ok) ==
    LET r == StreamExtractInt(descriptor_string)
    IN  IF ~r.fail THEN CloseDescriptor(r.value, ok) ELSE <<>>

\* exit(code): the process terminates with `code`.
Exit(code) ==
    /\ pc' = "done"
    /\ exitCode' = code

\* A fatal step of otapreopt_chroot: perform `op`; on success continue at
\* `next`, on failure exit(code).
FatalStep(op, next, code) ==
    /\ ops' = Append(ops, op)
    /\ IF op.ok
         THEN pc' = next /\ exitCode' = exitCode
         ELSE Exit(code)

\* ------------------------------------------------------------------- Init
Init ==
    /\ argc \in 0..MaxArgc
    /\ \E fd_string \in FdStrings, slot \in SlotSuffixes :
          arg = [n \in 0..(argc - 1) |->
                    IF n = 0 THEN "otapreopt_chroot"
                    ELSE IF n = 1 THEN fd_string
                    ELSE IF n = 2 THEN slot
                    ELSE IF n = 3 THEN SubCommand
                    ELSE DexoptParams[((n - 4) % Len(DexoptParams)) + 1]]
    /\ pc = "start"
    /\ ops = <<>>
    /\ exitCode = Running
    /\ i = 0
    /\ active_packages = <<>>
    /\ variant = 0
    /\ lib_it = 0
    /\ apex_it = 0
    /\ ret = "none"
    /\ cmd = <<>>
    /\ exec_result = FALSE
    /\ first_run = NoRun

\* ---------------------------------------------------------------- actions
\* CheckArgs with the bound off by one: if (argc < 2) exit(208);
CheckArgs_OffByOne ==
    /\ pc = "start"
    /\ IF argc < 2
         THEN Exit(ExitNotEnoughArgs)
         ELSE pc' = "close" /\ exitCode' = exitCode
    /\ UNCHANGED <<first_run, argc, arg, ops, i, active_packages, variant, lib_it, apex_it,
                   ret, cmd, exec_result>>

\* if (argc < 3) exit(208);
CheckArgs ==
    /\ pc = "start"
    /\ IF argc < 3
         THEN Exit(ExitNotEnoughArgs)
         ELSE pc' = "close" /\ exitCode' = exitCode
    /\ UNCHANGED <<first_run, argc, arg, ops, i, active_packages, variant, lib_it, apex_it,
                   ret, cmd, exec_result>>

\* CloseDescriptor(STDIN_FILENO) ... CloseDescriptor(arg[1]); the results
\* of close() are ignored.
CloseDescriptors ==
    /\ pc = "close"
    /\ \E r0, r1, r2, r3 \in BOOLEAN :
          ops' = ops \o CloseDescriptor(STDIN_FILENO, r0)
                     \o CloseDescriptor(STDOUT_FILENO, r1)
                     \o CloseDescriptor(STDERR_FILENO, r2)
                     \o CloseDescriptorString(arg[1], r3)
    /\ pc' = "unshare"
    /\ UNCHANGED <<first_run, argc, arg, exitCode, i, active_packages, variant, lib_it,
                   apex_it, ret, cmd, exec_result>>

\* Unshare with the result of unshare() not tested.
Unshare_IgnoreFailure ==
    /\ pc = "unshare"
    /\ \E ok \in BOOLEAN :
          ops' = Append(ops, Op("unshare", "CLONE_NEWNS", "", -1, <<>>, ok))
    /\ pc' = "mount_private"
    /\ UNCHANGED <<first_run, argc, arg, exitCode, i, active_packages, variant, lib_it,
                   apex_it, ret, cmd, exec_result>>

\* if (unshare(CLONE_NEWNS) != 0) exit(200);
Unshare ==
    /\ pc = "unshare"
    /\ \E ok \in BOOLEAN :
          FatalStep(Op("unshare", "CLONE_NEWNS", "", -1, <<>>, ok),
                    "mount_private", ExitUnshare)
    /\ UNCHANGED <<first_run, argc, arg, i, active_packages, variant, lib_it, apex_it,
                   ret, cmd, exec_result>>

\* MountPrivate with the result of mount() not tested.
MountPrivate_IgnoreFailure ==
    /\ pc = "mount_private"
    /\ \E ok \in BOOLEAN :
          ops' = Append(ops, Op("mount_private", "", "/postinstall", -1, <<>>, ok))
    /\ pc' = "bind_mounts"
    /\ UNCHANGED <<first_run, argc, arg, exitCode, i, active_packages, variant, lib_it, apex_it,
                   ret, cmd, exec_result>>

\* if (mount("", "/postinstall", nullptr, MS_PRIVATE, nullptr) != 0) exit(201);
MountPrivate ==
    /\ pc = "mount_private"
    /\ \E ok \in BOOLEAN :
          FatalStep(Op("mount_private", "", "/postinstall", -1, <<>>, ok),
                    "bind_mounts", ExitMountPrivate)
    /\ UNCHANGED <<first_run, argc, arg, i, active_packages, variant, lib_it, apex_it,
                   ret, cmd, exec_result>>

\* BindMountCore with a failed mount() not leaving the loop.
BindMountCore_IgnoreFailure ==
    /\ pc = "bind_mounts"
    /\ IF i < Len(kBindMounts)
         THEN /\ \E ok \in BOOLEAN :
                    ops' = Append(ops, Op("mount_bind", kBindMounts[i + 1],
                                          "/postinstall" \o kBindMounts[i + 1], -1, <<>>, ok))
              /\ i' = i + 1
              /\ UNCHANGED <<pc, exitCode>>
         ELSE /\ pc' = "validate_slot"
              /\ UNCHANGED <<ops, exitCode, i>>
    /\ UNCHANGED <<first_run, argc, arg, active_packages, variant, lib_it, apex_it,
                   ret, cmd, exec_result>>

\* One iteration of the loop over kBindMounts (i counts from 0 as in the
\* source), or its exit when i reaches arraysize(kBindMounts).
BindMountCore ==
    /\ pc = "bind_mounts"
    /\ IF i < Len(kBindMounts)
         THEN /\ \E ok \in BOOLEAN :
                    FatalStep(Op("mount_bind", kBindMounts[i + 1],
                                 "/postinstall" \o kBindMounts[i + 1], -1, <<>>, ok),
                              "bind_mounts", ExitBindMount)
              /\ i' = i + 1
         ELSE /\ pc' = "validate_slot"
              /\ UNCHANGED <<ops, exitCode, i>>
    /\ UNCHANGED <<first_run, argc, arg, active_packages, variant, lib_it, apex_it,
                   ret, cmd, exec_result>>

\* ValidateSlot with the result of the validator not tested.
ValidateSlot_Unchecked ==
    /\ pc = "validate_slot"
    /\ pc' = "mount_vendor"
    /\ UNCHANGED <<first_run, argc, arg, ops, exitCode, i, active_packages, variant, lib_it,
                   apex_it, ret, cmd, exec_result>>

\* if (!ValidateTargetSlotSuffix(arg[2])) exit(207);
ValidateSlot ==
    /\ pc = "validate_slot"
    /\ IF ~ValidateTargetSlotSuffix(arg[2])
         THEN Exit(ExitSlotSuffix)
         ELSE pc' = "mount_vendor" /\ exitCode' = exitCode
    /\ UNCHANGED <<first_run, argc, arg, ops, i, active_packages, variant, lib_it, apex_it,
                   ret, cmd, exec_result>>

\* MountVendor with a failed mount treated like a failed core bind mount.
MountVendor_Fatal ==
    /\ pc = "mount_vendor"
    /\ \E ok \in BOOLEAN :
          FatalStep(Op("mount_ext4", "/dev/block/by-name/vendor" \o arg[2],
                       "/postinstall/vendor", -1, <<>>, ok),
                    "mount_product", ExitBindMount)
    /\ UNCHANGED <<first_run, argc, arg, i, active_packages, variant, lib_it,
                   apex_it, ret, cmd, exec_result>>

\* mount("/dev/block/by-name/vendor<suffix>", "/postinstall/vendor", "ext4",
\* MS_RDONLY); the result is not used.
MountVendor ==
    /\ pc = "mount_vendor"
    /\ \E ok \in BOOLEAN :
          ops' = Append(ops, Op("mount_ext4", "/dev/block/by-name/vendor" \o arg[2],
                                "/postinstall/vendor", -1, <<>>, ok))
    /\ pc' = "mount_product"
    /\ UNCHANGED <<first_run, argc, arg, exitCode, i, active_packages, variant, lib_it,
                   apex_it, ret, cmd, exec_result>>

\* mount("/dev/block/by-name/product<suffix>", "/postinstall/product", "ext4",
\* MS_RDONLY); the result is not used.
MountProduct ==
    /\ pc = "mount_product"
    /\ \E ok \in BOOLEAN :
          ops' = Append(ops, Op("mount_ext4", "/dev/block/by-name/product" \o arg[2],
                                "/postinstall/product", -1, <<>>, ok))
    /\ pc' = "mount_tmpfs"
    /\ UNCHANGED <<first_run, argc, arg, exitCode, i, active_packages, variant, lib_it,
                   apex_it, ret, cmd, exec_result>>

\* The unchanged part of the single-call fatal steps below.
FatalStepFrame ==
    UNCHANGED <<first_run, argc, arg, i, active_packages, variant, lib_it, apex_it,
                ret, cmd, exec_result>>

\* if (mount("tmpfs", kPostinstallApexDir, "tmpfs", ...) != 0) exit(209);
MountTmpfs ==
    /\ pc = "mount_tmpfs"
    /\ \E ok \in BOOLEAN :
          FatalStep(Op("mount_tmpfs", "tmpfs", kPostinstallApexDir, -1, <<>>, ok),
                    "restorecon", ExitTmpfs)
    /\ FatalStepFrame

\* Restorecon with the result of selinux_android_restorecon() not tested.
Restorecon_IgnoreFailure ==
    /\ pc = "restorecon"
    /\ \E ok \in BOOLEAN :
          ops' = Append(ops, Op("restorecon", "", kPostinstallApexDir, -1, <<>>, ok))
    /\ pc' = "chmod"
    /\ UNCHANGED <<first_run, argc, arg, exitCode, i, active_packages, variant, lib_it,
                   apex_it, ret, cmd, exec_result>>

\* if (selinux_android_restorecon(kPostinstallApexDir, 0) < 0) exit(214);
Restorecon ==
    /\ pc = "restorecon"
    /\ \E ok \in BOOLEAN :
          FatalStep(Op("restorecon", "", kPostinstallApexDir, -1, <<>>, ok),
                    "chmod", ExitRestorecon)
    /\ FatalStepFrame

\* if (chmod(kPostinstallApexDir, 0755) != 0) exit(210);
Chmod ==
    /\ pc = "chmod"
    /\ \E ok \in BOOLEAN :
          FatalStep(Op("chmod", "0755", kPostinstallApexDir, -1, <<>>, ok),
                    "chown", ExitChmod)
    /\ FatalStepFrame

\* Chown with a failed chown() tried a second time before exit(211).
Chown_RetryOnce ==
    /\ pc = "chown"
    /\ \E ok \in BOOLEAN :
          /\ ops' = Append(ops, Op("chown", "0:0", kPostinstallApexDir, -1, <<>>, ok))
          /\ IF ok THEN pc' = "chdir_postinstall" /\ exitCode' = exitCode
             ELSE IF ops[Len(ops)].call = "chown" THEN Exit(ExitChown)
             ELSE pc' = pc /\ exitCode' = exitCode
    /\ UNCHANGED <<first_run, argc, arg, i, active_packages, variant, lib_it, apex_it,
                   ret, cmd, exec_result>>

\* if (chown(kPostinstallApexDir, 0, 0) != 0) exit(211);
Chown ==
    /\ pc = "chown"
    /\ \E ok \in BOOLEAN :
          FatalStep(Op("chown", "0:0", kPostinstallApexDir, -1, <<>>, ok),
                    "chdir_postinstall", ExitChown)
    /\ FatalStepFrame

\* if (chdir("/postinstall") != 0) exit(203);
ChdirPostinstall ==
    /\ pc = "chdir_postinstall"
    /\ \E ok \in BOOLEAN :
          FatalStep(Op("chdir", "", "/postinstall", -1, <<>>, ok),
                    "chroot", ExitChdirPostinstall)
    /\ FatalStepFrame

\* if (chroot(".") != 0) exit(204);
Chroot ==
    /\ pc = "chroot"
    /\ \E ok \in BOOLEAN :
          FatalStep(Op("chroot", "", ".", -1, <<>>, ok),
                    "chdir_root", ExitChroot)
    /\ FatalStepFrame

\* ChdirRoot with the result of chdir() not tested.
ChdirRoot_IgnoreFailure ==
    /\ pc = "chdir_root"
    /\ \E ok \in BOOLEAN :
          ops' = Append(ops, Op("chdir", "", "/", -1, <<>>, ok))
    /\ pc' = "activate"
    /\ UNCHANGED <<first_run, argc, arg, exitCode, i, active_packages, variant, lib_it,
                   apex_it, ret, cmd, exec_result>>

\* if (chdir("/") != 0) exit(205);
ChdirRoot ==
    /\ pc = "chdir_root"
    /\ \E ok \in BOOLEAN :
          FatalStep(Op("chdir", "", "/", -1, <<>>, ok),
                    "activate", ExitChdirRoot)
    /\ FatalStepFrame

\* active_packages = ActivateApexPackages(): scanPackagesDirAndActivate has
\* no result; getActivePackages returns any number of distinct records.
\* Then the first call of BindMountBionic (32-bit) is entered.
ActivateApexPackages ==
    /\ pc = "activate"
    /\ \E n \in 0..MaxPackages :
          active_packages' = SubSeq(ApexPaths, 1, n)
    /\ ops' = ops \o <<Op("scanPackagesDirAndActivate", kApexPackageSystemDir, "",
                          -1, <<>>, TRUE),
                       Op("getActivePackages", "", "", -1, <<>>, TRUE)>>
    /\ variant' = 32
    /\ pc' = "bionic_access"
    /\ UNCHANGED <<first_run, argc, arg, exitCode, i, lib_it, apex_it, ret, cmd, exec_result>>

\* The arguments of the two BindMountBionic calls of otapreopt_chroot.
BionicArgs(v) ==
    IF v = 32
      THEN [linker_source |-> kRuntimeLinkerPath,
            lib_dir_source |-> kRuntimeBionicLibsDir,
            linker_mount_point |-> kLinkerMountPoint,
            lib_mount_dir |-> kBionicLibsMountPointDir]
      ELSE [linker_source |-> kRuntimeLinkerPath64,
            lib_dir_source |-> kRuntimeBionicLibsDir64,
            linker_mount_point |-> kLinkerMountPoint64,
            lib_mount_dir |-> kBionicLibsMountPointDir64]

\* BindMountBionicReturn without the clean-up before exit(215) / exit(216).
BindMountBionicReturn_NoCleanup(result) ==
    IF result
      THEN /\ IF variant = 32
                THEN variant' = 64 /\ pc' = "bionic_access"
                ELSE variant' = variant /\ pc' = "build_cmd"
           /\ UNCHANGED <<ret, apex_it>>
      ELSE /\ pc' = IF variant = 32 THEN "exit215" ELSE "exit216"
           /\ UNCHANGED <<ret, apex_it, variant>>

\* BindMountBionicReturn with the 32-bit failure branch copied unchanged
\* for the 64-bit call.
BindMountBionicReturn_SameCode(result) ==
    IF result
      THEN /\ IF variant = 32
                THEN variant' = 64 /\ pc' = "bionic_access"
                ELSE variant' = variant /\ pc' = "build_cmd"
           /\ UNCHANGED <<ret, apex_it>>
      ELSE /\ pc' = "deactivate"
           /\ apex_it' = 1
           /\ ret' = "exit215"
           /\ variant' = variant

\* BindMountBionicReturn with the tear-down placed before the construction
\* of cmd and the Exec.
BindMountBionicReturn_TeardownBeforeExec(result) ==
    IF result
      THEN IF variant = 32
             THEN variant' = 64 /\ pc' = "bionic_access" /\ UNCHANGED <<ret, apex_it>>
             ELSE variant' = variant /\ pc' = "deactivate" /\ apex_it' = 1
                  /\ ret' = "build_cmd"
      ELSE /\ pc' = "deactivate"
           /\ apex_it' = 1
           /\ ret' = IF variant = 32 THEN "exit215" ELSE "exit216"
           /\ variant' = variant

\* What otapreopt_chroot does with the result of BindMountBionic: on
\* failure DeactivateApexPackages(active_packages) and exit(215) for the
\* 32-bit call, exit(216) for the 64-bit call; on success the 64-bit call
\* after the 32-bit one, the construction of cmd after the 64-bit one.
BindMountBionicReturn(result) ==
    IF result
      THEN /\ IF variant = 32
                THEN variant' = 64 /\ pc' = "bionic_access"
                ELSE variant' = variant /\ pc' = "build_cmd"
           /\ UNCHANGED <<ret, apex_it>>
      ELSE /\ pc' = "deactivate"
           /\ apex_it' = 1
           /\ ret' = IF variant = 32 THEN "exit215" ELSE "exit216"
           /\ variant' = variant

\* BionicAccess with the result of access() not tested.
BionicAccess_NoSkip ==
    /\ pc = "bionic_access"
    /\ \E exists \in BOOLEAN :
          ops' = Append(ops, Op("access", BionicArgs(variant).linker_source, "",
                                -1, <<>>, exists))
    /\ pc' = "bionic_linker"
    /\ UNCHANGED <<first_run, argc, arg, exitCode, i, active_packages, variant, lib_it,
                   apex_it, ret, cmd, exec_result>>

\* BindMountBionic: if (access(linker_source, F_OK) != 0) return true;
BionicAccess ==
    /\ pc = "bionic_access"
    /\ \E exists \in BOOLEAN :
          /\ ops' = Append(ops, Op("access", BionicArgs(variant).linker_source, "",
                                   -1, <<>>, exists))
          /\ IF exists
               THEN pc' = "bionic_linker" /\ UNCHANGED <<variant, ret, apex_it>>
               ELSE BindMountBionicReturn(TRUE)
    /\ UNCHANGED <<first_run, argc, arg, exitCode, i, active_packages, lib_it, cmd, exec_result>>

\* BindMountBionic: if (!BindMount(linker_source, linker_mount_point)) return false;
BionicLinker ==
    /\ pc = "bionic_linker"
    /\ \E ok \in BOOLEAN :
          /\ ops' = Append(ops, Op("mount_bind", BionicArgs(variant).linker_source,
                                   BionicArgs(variant).linker_mount_point, -1, <<>>, ok))
          /\ IF ok
               THEN pc' = "bionic_libs" /\ UNCHANGED <<variant, ret, apex_it>>
               ELSE BindMountBionicReturn(FALSE)
    /\ lib_it' = 1
    /\ UNCHANGED <<first_run, argc, arg, exitCode, i, active_packages, cmd, exec_result>>

\* BionicLib with a failed library mount not leaving the loop.
BionicLib_ContinueOnFailure ==
    /\ pc = "bionic_libs"
    /\ IF lib_it <= Len(kBionicLibFileNames)
         THEN \E ok \in BOOLEAN :
                 /\ ops' = Append(ops,
                        Op("mount_bind",
                           BionicArgs(variant).lib_dir_source \o kBionicLibFileNames[lib_it],
                           BionicArgs(variant).lib_mount_dir \o kBionicLibFileNames[lib_it],
                           -1, <<>>, ok))
                 /\ lib_it' = lib_it + 1
                 /\ UNCHANGED <<pc, variant, ret, apex_it>>
         ELSE /\ BindMountBionicReturn(\A n \in 1..Len(ops) : ops[n].call = "mount_bind" => ops[n].ok)
              /\ UNCHANGED <<ops, lib_it>>
    /\ UNCHANGED <<first_run, argc, arg, exitCode, i, active_packages, cmd, exec_result>>

\* BindMountBionic: one iteration of the loop over kBionicLibFileNames, or
\* `return true` after the last one.
BionicLib ==
    /\ pc = "bionic_libs"
    /\ IF lib_it <= Len(kBionicLibFileNames)
         THEN \E ok \in BOOLEAN :
                 /\ ops' = Append(ops,
                        Op("mount_bind",
                           BionicArgs(variant).lib_dir_source \o kBionicLibFileNames[lib_it],
                           BionicArgs(variant).lib_mount_dir \o kBionicLibFileNames[lib_it],
                           -1, <<>>, ok))
                 /\ IF ok
                      THEN /\ lib_it' = lib_it + 1
                           /\ UNCHANGED <<pc, variant, ret, apex_it>>
                      ELSE /\ lib_it' = lib_it
                           /\ BindMountBionicReturn(FALSE)
         ELSE /\ BindMountBionicReturn(TRUE)
              /\ UNCHANGED <<ops, lib_it>>
    /\ UNCHANGED <<first_run, argc, arg, exitCode, i, active_packages, cmd, exec_result>>

\* BuildCmd with the loop over the arguments started at 1: the status
\* descriptor is forwarded too.
BuildCmd_FromOne ==
    /\ pc = "build_cmd"
    /\ cmd' = <<kOtapreoptPath>>
    /\ i' = 1
    /\ pc' = "push_args"
    /\ UNCHANGED <<first_run, argc, arg, ops, exitCode, active_packages, variant, lib_it,
                   apex_it, ret, exec_result>>

\* cmd.push_back("/system/bin/otapreopt"); and the initialisation i = 2 of
\* the loop over the arguments.
BuildCmd ==
    /\ pc = "build_cmd"
    /\ cmd' = <<kOtapreoptPath>>
    /\ i' = 2
    /\ pc' = "push_args"
    /\ UNCHANGED <<first_run, argc, arg, ops, exitCode, active_packages, variant, lib_it,
                   apex_it, ret, exec_result>>

\* for (i = 2; i < argc; ++i) cmd.push_back(arg[i]);
PushArg ==
    /\ pc = "push_args"
    /\ IF i < argc
         THEN cmd' = Append(cmd, arg[i]) /\ i' = i + 1 /\ pc' = pc
         ELSE pc' = "exec" /\ UNCHANGED <<cmd, i>>
    /\ UNCHANGED <<first_run, argc, arg, ops, exitCode, active_packages, variant, lib_it,
                   apex_it, ret, exec_result>>

\* ExecOtapreopt with the exit on failure taken before the tear-down.
ExecOtapreopt_ExitEarly ==
    /\ pc = "exec"
    /\ \E ok \in BOOLEAN :
          /\ ops' = Append(ops, Op("Exec", "", "", -1, cmd, ok))
          /\ exec_result' = ok
          /\ IF ok
               THEN pc' = "deactivate" /\ apex_it' = 1 /\ ret' = "after_exec"
               ELSE pc' = "after_exec" /\ UNCHANGED <<apex_it, ret>>
    /\ UNCHANGED <<first_run, argc, arg, exitCode, i, active_packages, variant, lib_it, cmd>>

\* exec_result = Exec(cmd, &error_msg); then DeactivateApexPackages is
\* called whatever the result.
ExecOtapreopt ==
    /\ pc = "exec"
    /\ \E ok \in BOOLEAN :
          /\ ops' = Append(ops, Op("Exec", "", "", -1, cmd, ok))
          /\ exec_result' = ok
    /\ pc' = "deactivate"
    /\ apex_it' = 1
    /\ ret' = "after_exec"
    /\ UNCHANGED <<first_run, argc, arg, exitCode, i, active_packages, variant, lib_it, cmd>>

\* DeactivateApexPackages with the loop left at the first failed
\* deactivatePackage.
DeactivateApexPackages_StopOnFailure ==
    /\ pc = "deactivate"
    /\ IF apex_it <= Len(active_packages)
         THEN /\ \E ok \in BOOLEAN :
                    /\ ops' = Append(ops, Op("deactivatePackage",
                                             active_packages[apex_it], "", -1, <<>>, ok))
                    /\ pc' = IF ok THEN pc ELSE ret
              /\ apex_it' = apex_it + 1
         ELSE /\ pc' = ret
              /\ UNCHANGED <<ops, apex_it>>
    /\ UNCHANGED <<first_run, argc, arg, exitCode, i, active_packages, variant, lib_it,
                   ret, cmd, exec_result>>

\* DeactivateApexPackages: one iteration of the loop over active_packages
\* (a failed deactivatePackage is only logged), or the return to the caller.
DeactivateApexPackages ==
    /\ pc = "deactivate"
    /\ IF apex_it <= Len(active_packages)
         THEN /\ \E ok \in BOOLEAN :
                    ops' = Append(ops, Op("deactivatePackage",
                                          active_packages[apex_it], "", -1, <<>>, ok))
              /\ apex_it' = apex_it + 1
              /\ pc' = pc
         ELSE /\ pc' = ret
              /\ UNCHANGED <<ops, apex_it>>
    /\ UNCHANGED <<first_run, argc, arg, exitCode, i, active_packages, variant, lib_it,
                   ret, cmd, exec_result>>

\* exit(215) after the clean-up of a failed 32-bit BindMountBionic.
ExitBionic32Failure ==
    /\ pc = "exit215"
    /\ Exit(ExitBionic32)
    /\ UNCHANGED <<first_run, argc, arg, ops, i, active_packages, variant, lib_it, apex_it,
                   ret, cmd, exec_result>>

\* exit(216) after the clean-up of a failed 64-bit BindMountBionic.
ExitBionic64Failure ==
    /\ pc = "exit216"
    /\ Exit(ExitBionic64)
    /\ UNCHANGED <<first_run, argc, arg, ops, i, active_packages, variant, lib_it, apex_it,
                   ret, cmd, exec_result>>

\* Finish without the test of exec_result.
Finish_AlwaysZero ==
    /\ pc = "after_exec"
    /\ Exit(ExitSuccess)
    /\ UNCHANGED <<first_run, argc, arg, ops, i, active_packages, variant, lib_it, apex_it,
                   ret, cmd, exec_result>>

\* if (!exec_result) exit(213); return 0;
Finish ==
    /\ pc = "after_exec"
    /\ IF ~exec_result THEN Exit(ExitExec) ELSE Exit(ExitSuccess)
    /\ UNCHANGED <<first_run, argc, arg, ops, i, active_packages, variant, lib_it, apex_it,
                   ret, cmd, exec_result>>

Next ==
    \/ CheckArgs
    \/ CloseDescriptors
    \/ Unshare
    \/ MountPrivate
    \/ BindMountCore
    \/ ValidateSlot
    \/ MountVendor
    \/ MountProduct
    \/ MountTmpfs
    \/ Restorecon
    \/ Chmod
    \/ Chown
    \/ ChdirPostinstall
    \/ Chroot
    \/ ChdirRoot
    \/ ActivateApexPackages
    \/ BionicAccess
    \/ BionicLinker
    \/ BionicLib
    \/ BuildCmd
    \/ PushArg
    \/ ExecOtapreopt
    \/ DeactivateApexPackages
    \/ ExitBionic32Failure
    \/ ExitBionic64Failure
    \/ Finish

Spec == Init /\ [][Next]_vars

\* The process is sequential and every external call returns: a step that
\* is possible is eventually taken.
FairSpec == Init /\ [][Next]_vars /\ WF_vars(Next)

\* ------------------------------------------------------ two runs compared
\* The calls whose result otapreopt_chroot does not use.
ResultUnused(op) == op.call \in {"close", "mount_ext4", "deactivatePackage"}
NonClose(trace) == SelectSeq(trace, LAMBDA op : op.call /= "close")

\* The first run is the reference: every call whose result is unused
\* succeeds in it.
ReferenceRun ==
    \A n \in 1..Len(ops) : ResultUnused(ops[n]) => ops[n].ok

\* The second run meets the same environment as the first, except for the
\* results first_run.free names: with "partition" every call other than
\* the two partition mounts has the result of the call at the same position
\* of the first run; with "close" the same holds for the calls other than
\* close(), whose number may differ.  getActivePackages returns the same
\* records.
Replay ==
    /\ (\E n \in 1..Len(ops) : ops[n].call = "getActivePackages") =>
          active_packages = first_run.active_packages
    /\ IF first_run.free = "partition"
         THEN \A n \in 1..Len(ops) :
                 (n <= Len(first_run.ops) /\ ops[n].call /= "mount_ext4") =>
                     ops[n].ok = first_run.ops[n].ok
         ELSE LET a == NonClose(first_run.ops)
                  b == NonClose(ops)
              IN  \A n \in 1..Len(b) : n <= Len(a) => b[n].ok = a[n].ok

\* A step of the program in the first or in the second run.
RunStep ==
    /\ Next
    /\ IF first_run.taken THEN Replay' ELSE ReferenceRun'

\* The program is started again after the first run has terminated, with
\* the same arguments, or with another status descriptor when the close()
\* calls are what the two runs may differ in.
Restart ==
    /\ pc = "done"
    /\ ~first_run.taken
    /\ \E free \in {"partition", "close"} :
          /\ first_run' = [taken |-> TRUE, free |-> free, ops |-> ops,
                           exitCode |-> exitCode, active_packages |-> active_packages]
          /\ IF free = "close" /\ argc >= 2
               THEN \E fd_string \in OtherFdStrings : arg' = [arg EXCEPT ![1] = fd_string]
               ELSE arg' = arg
    /\ pc' = "start"
    /\ ops' = <<>>
    /\ exitCode' = Running
    /\ i' = 0
    /\ active_packages' = <<>>
    /\ variant' = 0
    /\ lib_it' = 0
    /\ apex_it' = 0
    /\ ret' = "none"
    /\ cmd' = <<>>
    /\ exec_result' = FALSE
    /\ UNCHANGED argc

NextPair ==
    \/ RunStep
    \/ Restart

\* The first run is started with the status descriptor "5".
InitPair ==
    /\ Init
    /\ argc >= 2 => arg[1] = <<"5">>

PairSpec == InitPair /\ [][NextPair]_vars

\* ------------------------------------------------- reading the call trace
OpIdx == 1..Len(ops)
Terminated == pc = "done"
HasCall(c) == \E n \in OpIdx : ops[n].call = c
IsMount(op) == op.call \in {"mount_bind", "mount_ext4", "mount_tmpfs"}
IsCoreBind(op) ==
    op.call = "mount_bind" /\ \E k \in 1..Len(kBindMounts) : op.src = kBindMounts[k]
IsPartitionMount(op) == op.call = "mount_ext4"
BionicSources32 ==
    {kRuntimeLinkerPath}
        \cup {kRuntimeBionicLibsDir \o kBionicLibFileNames[k] :
                 k \in 1..Len(kBionicLibFileNames)}
BionicSources64 ==
    {kRuntimeLinkerPath64}
        \cup {kRuntimeBionicLibsDir64 \o kBionicLibFileNames[k] :
                 k \in 1..Len(kBionicLibFileNames)}
BionicSources(v) == IF v = 32 THEN BionicSources32 ELSE BionicSources64
IsBionicMount(op, v) == op.call = "mount_bind" /\ op.src \in BionicSources(v)
DeactivationsOf(p) ==
    {n \in OpIdx : ops[n].call = "deactivatePackage" /\ ops[n].src = p}
ActivePaths == {active_packages[k] : k \in 1..Len(active_packages)}
AllPaths == {ApexPaths[k] : k \in 1..Len(ApexPaths)}
\* Every activated record has been deactivated exactly once, at a position
\* of the trace after `from`.
AllDeactivatedOnceAfter(from) ==
    \A p \in ActivePaths :
        /\ Cardinality(DeactivationsOf(p)) = 1
        /\ \A n \in DeactivationsOf(p) : n > from

\* ------------------------------------------------------------------ claims
\* C1: once ActivateApexPackages has returned its set, every terminated run
\* has ended on one of the four paths 215, 216, 213 or 0 and has called
\* apex::deactivatePackage exactly once for each record of the set; at no
\* time is a record deactivated twice, nor anything outside the set.
C1_DeactivatedExactlyOnce ==
    /\ \A p \in AllPaths :
          Cardinality(DeactivationsOf(p)) <= (IF p \in ActivePaths THEN 1 ELSE 0)
    /\ (Terminated /\ HasCall("getActivePackages")) =>
          /\ exitCode \in {ExitBionic32, ExitBionic64, ExitExec, ExitSuccess}
          /\ AllDeactivatedOnceAfter(0)

C1_Witness ==
    /\ Terminated
    /\ exitCode = ExitBionic64
    /\ Len(active_packages) >= 2
    /\ AllDeactivatedOnceAfter(0)

\* C2: with argc < 3 no external call is ever made (no close, unshare,
\* mount, chroot, activation or Exec) and the run terminates with 208.
C2_TooFewArguments ==
    argc < 3 =>
        /\ ops = <<>>
        /\ pc \in {"start", "done"}
        /\ Terminated => exitCode = ExitNotEnoughArgs

C2_Witness == argc = 2 /\ Terminated /\ exitCode = ExitNotEnoughArgs /\ ops = <<>>

\* C3: a slot suffix that fails ValidateTargetSlotSuffix never reaches a
\* partition mount (the only place a /dev/block/by-name/ path is built):
\* the trace holds no partition mount, the run that reaches the validation
\* ends there with 207, and no step after the validation is ever entered.
\* Conversely every partition path in the trace is built from a valid suffix.
C3_InvalidSuffixStopsBeforePartitions ==
    /\ (argc >= 3 /\ ~ValidateTargetSlotSuffix(arg[2])) =>
          /\ \A n \in OpIdx : ~IsPartitionMount(ops[n])
          /\ pc \in {"start", "close", "unshare", "mount_private", "bind_mounts",
                     "validate_slot", "done"}
          /\ exitCode \in {Running, ExitUnshare, ExitMountPrivate, ExitBindMount,
                           ExitSlotSuffix}
          /\ (Terminated /\ \E n \in OpIdx : IsCoreBind(ops[n]) /\ ops[n].src = "/sys"
                                             /\ ops[n].ok) =>
                exitCode = ExitSlotSuffix
    /\ \A n \in OpIdx :
          IsPartitionMount(ops[n]) =>
              /\ ValidateTargetSlotSuffix(arg[2])
              /\ ops[n].src \in {"/dev/block/by-name/vendor" \o arg[2],
                                 "/dev/block/by-name/product" \o arg[2]}

C3_Witness ==
    /\ argc >= 3
    /\ arg[2] = "/../sda1"
    /\ Terminated
    /\ exitCode = ExitSlotSuffix
    /\ Len(ops) > 0
    /\ IsCoreBind(ops[Len(ops)])
    /\ ops[Len(ops)].src = "/sys"

\* C4: a failed core bind-mount is the last external call of its run: the
\* run is terminated with 202, so no later core directory, partition,
\* tmpfs, chroot, activation, Bionic mount or Exec follows it.
C4_CoreBindFailureIsFatal ==
    \A n \in OpIdx :
        (IsCoreBind(ops[n]) /\ ~ops[n].ok) =>
            /\ n = Len(ops)
            /\ Terminated
            /\ exitCode = ExitBindMount

C4_Witness ==
    /\ Terminated
    /\ exitCode = ExitBindMount
    /\ Len(ops) > 0
    /\ ops[Len(ops)].src = "/dev"
    /\ ~ops[Len(ops)].ok

\* C5: a failed Exec is followed in the trace by exactly one deactivation
\* of every activated record and by nothing else, and the run terminates
\* with 213; a run terminated with 213 has a failed Exec followed by all
\* these deactivations.
C5_ExecFailureDeactivatesThenExits ==
    /\ \A n \in OpIdx :
          (ops[n].call = "Exec" /\ ~ops[n].ok) =>
              /\ \A m \in OpIdx : m > n => ops[m].call = "deactivatePackage"
              /\ Terminated => (exitCode = ExitExec /\ AllDeactivatedOnceAfter(n))
    /\ exitCode = ExitExec =>
          \E n \in OpIdx :
              /\ ops[n].call = "Exec"
              /\ ~ops[n].ok
              /\ AllDeactivatedOnceAfter(n)

C5_Witness ==
    /\ Terminated
    /\ exitCode = ExitExec
    /\ Len(active_packages) >= 2
    /\ \E n \in OpIdx : ops[n].call = "Exec" /\ ~ops[n].ok /\ AllDeactivatedOnceAfter(n)

\* The calls whose failure is fatal.
IsFatalCall(op) ==
    \/ op.call \in {"unshare", "mount_private", "mount_tmpfs", "restorecon", "chmod",
                    "chown", "chdir", "chroot", "Exec"}
    \/ IsCoreBind(op)
    \/ IsBionicMount(op, 32)
    \/ IsBionicMount(op, 64)

\* The calls every complete run makes, each exactly once.
RequiredCalls ==
    { <<"unshare", "">>, <<"mount_private", "/postinstall">> }
        \cup { <<"mount_bind", "/postinstall" \o kBindMounts[k]>> : k \in 1..Len(kBindMounts) }
        \cup { <<"mount_tmpfs", kPostinstallApexDir>>, <<"restorecon", kPostinstallApexDir>>,
               <<"chmod", kPostinstallApexDir>>, <<"chown", kPostinstallApexDir>>,
               <<"chdir", "/postinstall">>, <<"chroot", ".">>, <<"chdir", "/">>,
               <<"Exec", "">> }

\* A valid invocation in which every fatal step was made and succeeded.
EverythingSucceeded ==
    /\ argc >= 3
    /\ ValidateTargetSlotSuffix(arg[2])
    /\ \A n \in OpIdx : IsFatalCall(ops[n]) => ops[n].ok
    /\ \A c \in RequiredCalls :
          Cardinality({n \in OpIdx : ops[n].call = c[1] /\ ops[n].tgt = c[2]}) = 1

\* C6: a terminated run has exit code 0 exactly when the invocation was
\* valid and every fatal step, Exec included, was made and succeeded.
C6_ExitZeroIffEverythingSucceeded ==
    Terminated => (exitCode = ExitSuccess <=> EverythingSucceeded)

C6_Witness == Terminated /\ exitCode = ExitSuccess /\ EverythingSucceeded /\ argc >= 4

\* The failure conditions, and the exit code of each.
CodeOf ==
    [args |-> ExitNotEnoughArgs, unshare |-> ExitUnshare, private |-> ExitMountPrivate,
     bind |-> ExitBindMount, suffix |-> ExitSlotSuffix, tmpfs |-> ExitTmpfs,
     relabel |-> ExitRestorecon, chmod |-> ExitChmod, chown |-> ExitChown,
     chdir_staging |-> ExitChdirPostinstall, chroot |-> ExitChroot,
     chdir_root |-> ExitChdirRoot, bionic32 |-> ExitBionic32,
     bionic64 |-> ExitBionic64, exec |-> ExitExec]
Sites == DOMAIN CodeOf
Failed(call, tgt) ==
    \E n \in OpIdx : ops[n].call = call /\ ops[n].tgt = tgt /\ ~ops[n].ok
\* The failure conditions that occurred in the run so far, read from the
\* arguments and the call trace only.
FailedSites ==
    {s \in Sites :
        \/ s = "args" /\ argc < 3
        \/ s = "unshare" /\ Failed("unshare", "")
        \/ s = "private" /\ Failed("mount_private", "/postinstall")
        \/ s = "bind" /\ \E n \in OpIdx : IsCoreBind(ops[n]) /\ ~ops[n].ok
        \/ s = "suffix" /\ argc >= 3 /\ ~ValidateTargetSlotSuffix(arg[2])
                        /\ \E n \in OpIdx : IsCoreBind(ops[n]) /\ ops[n].src = "/sys"
                                             /\ ops[n].ok
        \/ s = "tmpfs" /\ Failed("mount_tmpfs", kPostinstallApexDir)
        \/ s = "relabel" /\ Failed("restorecon", kPostinstallApexDir)
        \/ s = "chmod" /\ Failed("chmod", kPostinstallApexDir)
        \/ s = "chown" /\ Failed("chown", kPostinstallApexDir)
        \/ s = "chdir_staging" /\ Failed("chdir", "/postinstall")
        \/ s = "chroot" /\ Failed("chroot", ".")
        \/ s = "chdir_root" /\ Failed("chdir", "/")
        \/ s = "bionic32" /\ \E n \in OpIdx : IsBionicMount(ops[n], 32) /\ ~ops[n].ok
        \/ s = "bionic64" /\ \E n \in OpIdx : IsBionicMount(ops[n], 64) /\ ~ops[n].ok
        \/ s = "exec" /\ \E n \in OpIdx : ops[n].call = "Exec" /\ ~ops[n].ok}

\* C7: the exit code of a terminated run names its failure condition: the
\* conditions that occurred are exactly the conditions whose code is the
\* exit code (one condition for a non-zero code, none for 0), so two runs
\* with the same non-zero code failed at the same condition.
C7_ExitCodeIdentifiesFailureSite ==
    Terminated =>
        /\ FailedSites = {s \in Sites : CodeOf[s] = exitCode}
        /\ exitCode /= ExitSuccess => Cardinality(FailedSites) = 1

C7_Witness == Terminated /\ exitCode = ExitChown /\ FailedSites = {"chown"}

\* C8: after access() reports a variant's linker source absent, no mount of
\* that variant's linker or libraries is in the trace, the variant's exit
\* code is never produced, and the next call is the access() of the 64-bit
\* linker (after the 32-bit variant) or Exec (after the 64-bit variant).
C8_AbsentLinkerSkipsVariant ==
    \A n \in OpIdx : \A v \in {32, 64} :
        (ops[n].call = "access" /\ ops[n].src = BionicArgs(v).linker_source /\ ~ops[n].ok) =>
            /\ \A m \in OpIdx : ~IsBionicMount(ops[m], v)
            /\ exitCode /= (IF v = 32 THEN ExitBionic32 ELSE ExitBionic64)
            /\ n < Len(ops) =>
                  IF v = 32
                    THEN ops[n + 1].call = "access"
                         /\ ops[n + 1].src = kRuntimeLinkerPath64
                    ELSE ops[n + 1].call = "Exec"
            /\ n = Len(ops) =>
                  IF v = 32
                    THEN pc = "bionic_access" /\ variant = 64
                    ELSE pc \in {"build_cmd", "push_args", "exec"}

C8_Witness ==
    /\ Terminated
    /\ exitCode = ExitSuccess
    /\ \E n \in OpIdx : ops[n].call = "access" /\ ops[n].src = kRuntimeLinkerPath
                         /\ ~ops[n].ok
    /\ \E n \in OpIdx : IsBionicMount(ops[n], 64)

\* C9: a failed bind mount of the 32-bit (64-bit) linker or libraries is
\* followed in the trace only by deactivations, never by Exec, and the run
\* terminates with 215 (216) after every activated record has been
\* deactivated exactly once.
C9_BionicFailureDeactivatesThenExits ==
    \A n \in OpIdx : \A v \in {32, 64} :
        (IsBionicMount(ops[n], v) /\ ~ops[n].ok) =>
            /\ \A m \in OpIdx : ops[m].call /= "Exec"
            /\ \A m \in OpIdx : m > n => ops[m].call = "deactivatePackage"
            /\ pc \in {"deactivate", "exit215", "exit216", "done"}
            /\ Terminated =>
                  /\ exitCode = (IF v = 32 THEN ExitBionic32 ELSE ExitBionic64)
                  /\ AllDeactivatedOnceAfter(n)

C9_Witness ==
    /\ Terminated
    /\ exitCode = ExitBionic32
    /\ Len(active_packages) >= 2
    /\ \E n \in OpIdx : /\ IsBionicMount(ops[n], 32)
                        /\ ops[n].tgt = "/bionic/lib/libm.so"
                        /\ ~ops[n].ok
                        /\ AllDeactivatedOnceAfter(n)

\* C10: every mount (bind, partition, tmpfs) in the trace is preceded by a
\* successful unshare(CLONE_NEWNS) and then a successful private marking of
\* /postinstall; a failed unshare or private marking is the last call of
\* its run, which terminates with 200 or 201.
C10_IsolationBeforeMounts ==
    /\ \A n \in OpIdx :
          IsMount(ops[n]) =>
              \E q \in 1..(n - 1) :
                  /\ ops[q].call = "mount_private" /\ ops[q].ok
                  /\ \E u \in 1..(q - 1) : ops[u].call = "unshare" /\ ops[u].ok
    /\ \A n \in OpIdx :
          (ops[n].call \in {"unshare", "mount_private"} /\ ~ops[n].ok) =>
              /\ n = Len(ops)
              /\ Terminated
              /\ exitCode = (IF ops[n].call = "unshare" THEN ExitUnshare
                             ELSE ExitMountPrivate)

C10_Witness ==
    /\ Terminated
    /\ exitCode = ExitMountPrivate
    /\ \E n \in OpIdx : ops[n].call = "unshare" /\ ops[n].ok
    /\ \A n \in OpIdx : ~IsMount(ops[n])

\* The exit codes of the steps that precede ActivateApexPackages.
PreActivationCodes ==
    {ExitNotEnoughArgs, ExitUnshare, ExitMountPrivate, ExitBindMount, ExitSlotSuffix,
     ExitTmpfs, ExitRestorecon, ExitChmod, ExitChown, ExitChdirPostinstall,
     ExitChroot, ExitChdirRoot}
\* Position of the first call named c in the trace, 0 when there is none.
FirstCall(c) ==
    IF HasCall(c) THEN CHOOSE n \in OpIdx :
                           /\ ops[n].call = c
                           /\ \A m \in 1..(n - 1) : ops[m].call /= c
    ELSE 0
SucceededBefore(call, tgt, pos) ==
    \E n \in 1..(pos - 1) : ops[n].call = call /\ ops[n].tgt = tgt /\ ops[n].ok

\* C11: a run that ends with the code of a step before the activation has
\* called neither scanPackagesDirAndActivate nor deactivatePackage; the
\* activation call comes after a successful chdir(/postinstall), chroot and
\* chdir(/), in that order, and every deactivation call comes after it.
C11_NoCleanupBeforeActivation ==
    /\ exitCode \in PreActivationCodes =>
          /\ ~HasCall("scanPackagesDirAndActivate")
          /\ ~HasCall("getActivePackages")
          /\ ~HasCall("deactivatePackage")
    /\ \A n \in OpIdx :
          ops[n].call = "scanPackagesDirAndActivate" =>
              /\ n >= 4
              /\ ops[n - 3].call = "chdir" /\ ops[n - 3].tgt = "/postinstall" /\ ops[n - 3].ok
              /\ ops[n - 2].call = "chroot" /\ ops[n - 2].ok
              /\ ops[n - 1].call = "chdir" /\ ops[n - 1].tgt = "/" /\ ops[n - 1].ok
    /\ \A n \in OpIdx :
          ops[n].call = "deactivatePackage" =>
              /\ FirstCall("scanPackagesDirAndActivate") > 0
              /\ FirstCall("scanPackagesDirAndActivate") < n

C11_Witness ==
    /\ Terminated
    /\ exitCode = ExitChdirRoot
    /\ SucceededBefore("chroot", ".", Len(ops))
    /\ ~HasCall("scanPackagesDirAndActivate")

\* C13: tmpfs mount, restorecon, chmod, chown are called in this order,
\* each directly after the success of the one before (so chmod and chown
\* never precede a successful restorecon); a failure of one of them is the
\* last call of its run, with code 209, 214, 210, 211; and chdir, chroot,
\* chdir follow only after all four succeeded.
C13_StagingMountPointOrder ==
    /\ \A n \in OpIdx :
          /\ ops[n].call = "restorecon" =>
                n >= 2 /\ ops[n - 1].call = "mount_tmpfs" /\ ops[n - 1].ok
          /\ ops[n].call = "chmod" =>
                n >= 2 /\ ops[n - 1].call = "restorecon" /\ ops[n - 1].ok
          /\ ops[n].call = "chown" =>
                n >= 2 /\ ops[n - 1].call = "chmod" /\ ops[n - 1].ok
          /\ (ops[n].call = "chdir" /\ ops[n].tgt = "/postinstall") =>
                n >= 2 /\ ops[n - 1].call = "chown" /\ ops[n - 1].ok
          /\ ops[n].call \in {"chdir", "chroot"} =>
                /\ SucceededBefore("mount_tmpfs", kPostinstallApexDir, n)
                /\ SucceededBefore("restorecon", kPostinstallApexDir, n)
                /\ SucceededBefore("chmod", kPostinstallApexDir, n)
                /\ SucceededBefore("chown", kPostinstallApexDir, n)
    /\ \A n \in OpIdx :
          (ops[n].call \in {"mount_tmpfs", "restorecon", "chmod", "chown"} /\ ~ops[n].ok) =>
              /\ n = Len(ops)
              /\ Terminated
              /\ exitCode = (CASE ops[n].call = "mount_tmpfs" -> ExitTmpfs
                               [] ops[n].call = "restorecon" -> ExitRestorecon
                               [] ops[n].call = "chmod" -> ExitChmod
                               [] ops[n].call = "chown" -> ExitChown)

C13_Witness ==
    /\ Terminated
    /\ exitCode = ExitRestorecon
    /\ Len(ops) >= 2
    /\ ops[Len(ops)].call = "restorecon"
    /\ ~ops[Len(ops)].ok
    /\ ops[Len(ops) - 1].call = "mount_tmpfs"

\* C14: the vector handed to Exec has argc - 1 entries: the fixed path
\* /system/bin/otapreopt, then arg[2], ..., arg[argc - 1] in this order
\* (cmd[k] = arg[k + 1] in the 0-based indices of the source, which is
\* argv[k + 1] = arg[k + 1] in the 1-based sequence of the model).
C14_ExecArgumentVector ==
    \A n \in OpIdx :
        ops[n].call = "Exec" =>
            /\ argc >= 3
            /\ IF Len(ops[n].argv) /= argc - 1 THEN FALSE
               ELSE /\ ops[n].argv[1] = "/system/bin/otapreopt"
                    /\ \A k \in 1..(argc - 2) : ops[n].argv[k + 1] = arg[k + 1]

C14_Witness ==
    /\ argc = 4
    /\ \E n \in OpIdx : /\ ops[n].call = "Exec"
                        /\ ops[n].argv = <<"/system/bin/otapreopt", "_b", "dexopt">>

\* Position of each call in the fixed order of otapreopt_chroot (0 for the
\* close() calls, which come first).
IndexIn(seq, x) == CHOOSE k \in 1..Len(seq) : seq[k] = x
\* Which of kBionicLibFileNames a mount from the directory dir is about.
LibIndex(op, dir) ==
    CHOOSE k \in 1..Len(kBionicLibFileNames) : op.src = dir \o kBionicLibFileNames[k]
StepRank(op) ==
    CASE op.call = "close" -> 0
      [] op.call = "unshare" -> 1
      [] op.call = "mount_private" -> 2
      [] op.call = "mount_bind" ->
            IF op.src = kRuntimeLinkerPath THEN 19
            ELSE IF op.src = kRuntimeLinkerPath64 THEN 24
            ELSE IF op.src \in BionicSources32 THEN 19 + LibIndex(op, kRuntimeBionicLibsDir)
            ELSE IF op.src \in BionicSources64 THEN 24 + LibIndex(op, kRuntimeBionicLibsDir64)
            ELSE 2 + IndexIn(kBindMounts, op.src)
      [] op.call = "mount_ext4" -> IF op.tgt = "/postinstall/vendor" THEN 7 ELSE 8
      [] op.call = "mount_tmpfs" -> 9
      [] op.call = "restorecon" -> 10
      [] op.call = "chmod" -> 11
      [] op.call = "chown" -> 12
      [] op.call = "chdir" -> IF op.tgt = "/postinstall" THEN 13 ELSE 15
      [] op.call = "chroot" -> 14
      [] op.call = "scanPackagesDirAndActivate" -> 16
      [] op.call = "getActivePackages" -> 17
      [] op.call = "access" -> IF op.src = kRuntimeLinkerPath THEN 18 ELSE 23
      [] op.call = "Exec" -> 28
      [] op.call = "deactivatePackage" -> 28 + IndexIn(ApexPaths, op.src)

PostActivationCode ==
    IF \E n \in OpIdx : IsBionicMount(ops[n], 32) /\ ~ops[n].ok THEN ExitBionic32
    ELSE IF \E n \in OpIdx : IsBionicMount(ops[n], 64) /\ ~ops[n].ok THEN ExitBionic64
    ELSE IF \E n \in OpIdx : ops[n].call = "Exec" /\ ops[n].ok THEN ExitSuccess
    ELSE ExitExec

\* C17: after a failed deactivatePackage the loop goes on with the next
\* record (the failed call is followed by the deactivation of the next
\* record, and the run does not leave the loop before the last record),
\* every record is deactivated once, and the exit code is the one given by
\* the Bionic mounts and Exec: 215, 216, 0 after a successful Exec, else 213.
C17_DeactivationFailureNotEscalated ==
    \A n \in OpIdx :
        (ops[n].call = "deactivatePackage" /\ ~ops[n].ok) =>
            LET k == IndexIn(active_packages, ops[n].src)
            IN  /\ k < Len(active_packages) =>
                      IF n < Len(ops)
                        THEN /\ ops[n + 1].call = "deactivatePackage"
                             /\ ops[n + 1].src = active_packages[k + 1]
                        ELSE pc = "deactivate" /\ apex_it = k + 1
                /\ Terminated =>
                      /\ AllDeactivatedOnceAfter(0)
                      /\ exitCode = PostActivationCode

C17_Witness ==
    /\ Terminated
    /\ exitCode = ExitSuccess
    /\ Len(active_packages) >= 2
    /\ \E n \in OpIdx : /\ ops[n].call = "deactivatePackage"
                        /\ ops[n].src = active_packages[1]
                        /\ ~ops[n].ok
    /\ AllDeactivatedOnceAfter(0)

\* C19: in a variant the linker mount directly follows the successful
\* access() of its source, libc.so directly follows the successful linker
\* mount, libm.so the successful libc.so mount and libdl.so the successful
\* libm.so mount; a failed mount is followed by no further mount (only
\* deactivations follow); and the access() of the 64-bit linker directly
\* follows either the 32-bit access() that found no linker or the
\* successful 32-bit libdl.so mount.
C19_BionicMountOrder ==
    /\ \A n \in OpIdx : \A v \in {32, 64} :
          IsBionicMount(ops[n], v) =>
              /\ n >= 2
              /\ ops[n - 1].ok
              /\ IF ops[n].src = BionicArgs(v).linker_source
                   THEN /\ ops[n].tgt = BionicArgs(v).linker_mount_point
                        /\ ops[n - 1].call = "access"
                        /\ ops[n - 1].src = BionicArgs(v).linker_source
                   ELSE LET k == LibIndex(ops[n], BionicArgs(v).lib_dir_source)
                        IN  /\ ops[n].tgt = BionicArgs(v).lib_mount_dir \o kBionicLibFileNames[k]
                            /\ ops[n - 1].call = "mount_bind"
                            /\ ops[n - 1].src =
                                  IF k = 1 THEN BionicArgs(v).linker_source
                                  ELSE BionicArgs(v).lib_dir_source \o kBionicLibFileNames[k - 1]
              /\ ~ops[n].ok =>
                    \A m \in OpIdx : m > n => ops[m].call = "deactivatePackage"
    /\ \A n \in OpIdx :
          (ops[n].call = "access" /\ ops[n].src = kRuntimeLinkerPath64) =>
              /\ n >= 2
              /\ \/ /\ ops[n - 1].call = "access"
                    /\ ops[n - 1].src = kRuntimeLinkerPath
                    /\ ~ops[n - 1].ok
                 \/ /\ IsBionicMount(ops[n - 1], 32)
                    /\ ops[n - 1].src = kRuntimeBionicLibsDir \o "libdl.so"
                    /\ ops[n - 1].ok

C19_Witness ==
    /\ Terminated
    /\ exitCode = ExitBionic64
    /\ \E n \in OpIdx : /\ IsBionicMount(ops[n], 64)
                        /\ ops[n].tgt = "/bionic/lib64/libc.so"
                        /\ ~ops[n].ok
    /\ \E n \in OpIdx : IsBionicMount(ops[n], 32) /\ ops[n].tgt = "/bionic/lib/libdl.so"
    /\ \A n \in OpIdx : ops[n].tgt /= "/bionic/lib64/libm.so"

\* BindMountBionic returned true for variant v before position pos: its
\* linker was found absent, or its linker and three libraries were mounted.
VariantSucceededBefore(v, pos) ==
    \/ \E n \in 1..(pos - 1) :
          ops[n].call = "access" /\ ops[n].src = BionicArgs(v).linker_source /\ ~ops[n].ok
    \/ \A src \in BionicSources(v) :
          \E n \in 1..(pos - 1) : IsBionicMount(ops[n], v) /\ ops[n].src = src /\ ops[n].ok

\* C20: no deactivatePackage call precedes an Exec call, Exec is called
\* only after both BindMountBionic calls returned true, and a terminated
\* run that activated but never called Exec ended with 215 or 216 after
\* deactivating every record once.
C20_ActiveDuringExec ==
    /\ \A e \in OpIdx :
          ops[e].call = "Exec" =>
              /\ \A m \in 1..(e - 1) : ops[m].call /= "deactivatePackage"
              /\ VariantSucceededBefore(32, e)
              /\ VariantSucceededBefore(64, e)
              /\ \A m \in OpIdx : IsMount(ops[m]) => ops[m].ok \/ IsPartitionMount(ops[m])
    /\ (pc = "deactivate" /\ ret = "after_exec") => ops[Len(ops)].call \in {"Exec", "deactivatePackage"}
    /\ (pc \in {"build_cmd", "push_args", "exec"}) => ~HasCall("deactivatePackage")
    /\ (Terminated /\ HasCall("getActivePackages") /\ ~HasCall("Exec")) =>
          /\ exitCode \in {ExitBionic32, ExitBionic64}
          /\ \E n \in OpIdx : /\ ops[n].call = "mount_bind"
                              /\ ~ops[n].ok
                              /\ AllDeactivatedOnceAfter(n)

C20_Witness ==
    /\ Terminated
    /\ Len(active_packages) >= 2
    /\ \E e \in OpIdx : /\ ops[e].call = "Exec"
                        /\ \A p \in ActivePaths : \A n \in DeactivationsOf(p) : n > e
    /\ AllDeactivatedOnceAfter(0)

\* The exit code of the failure site of a fatal call.
CodeOfCall(op) ==
    CASE op.call = "unshare" -> ExitUnshare
      [] op.call = "mount_private" -> ExitMountPrivate
      [] IsCoreBind(op) -> ExitBindMount
      [] op.call = "mount_tmpfs" -> ExitTmpfs
      [] op.call = "restorecon" -> ExitRestorecon
      [] op.call = "chmod" -> ExitChmod
      [] op.call = "chown" -> ExitChown
      [] op.call = "chdir" /\ op.tgt = "/postinstall" -> ExitChdirPostinstall
      [] op.call = "chroot" -> ExitChroot
      [] op.call = "chdir" /\ op.tgt = "/" -> ExitChdirRoot
      [] IsBionicMount(op, 32) -> ExitBionic32
      [] IsBionicMount(op, 64) -> ExitBionic64
      [] op.call = "Exec" -> ExitExec
FailedFatalCalls == {n \in OpIdx : IsFatalCall(ops[n]) /\ ~ops[n].ok}
\* The code of the first fatal step that failed in the run, 0 if none did.
FirstFailureCode ==
    IF argc < 3 THEN ExitNotEnoughArgs
    ELSE IF FailedFatalCalls /= {}
           THEN CodeOfCall(ops[CHOOSE n \in FailedFatalCalls :
                                   \A m \in FailedFatalCalls : n <= m])
    ELSE IF ~ValidateTargetSlotSuffix(arg[2]) THEN ExitSlotSuffix
    ELSE ExitSuccess
AllExitCodes ==
    {0, 200, 201, 202, 203, 204, 205, 207, 208, 209, 210, 211, 213, 214, 215, 216}

\* C16: every run reaches the terminal state; there it has one exit code,
\* which is one of the sixteen codes and is the code of the first fatal
\* step that failed (0 when none failed); the code is set at termination
\* only and never changes afterwards.
C16_EveryRunTerminates ==
    /\ <>Terminated
    /\ [](Terminated => (exitCode \in AllExitCodes /\ exitCode = FirstFailureCode))
    /\ [](~Terminated => exitCode = Running)
    /\ [][Terminated => (Terminated' /\ exitCode' = exitCode)]_vars

C16_Witness ==
    /\ Terminated
    /\ exitCode = ExitChroot
    /\ FailedFatalCalls = {Len(ops)}

\* The call without its result.
CallOf(op) == [call |-> op.call, src |-> op.src, tgt |-> op.tgt, fd |-> op.fd,
               argv |-> op.argv]
VendorMounts == {n \in OpIdx : IsPartitionMount(ops[n]) /\ ops[n].tgt = "/postinstall/vendor"}
ProductMounts == {n \in OpIdx : IsPartitionMount(ops[n]) /\ ops[n].tgt = "/postinstall/product"}

\* C12: the vendor mount is attempted once, directly after the last core
\* bind mount, the product mount once, directly after the vendor mount
\* whatever its result, and the tmpfs mount directly after the product
\* mount whatever its result; and a second run that meets the same
\* environment except for the results of these two mounts makes the same
\* calls with the same results everywhere else and ends with the same code.
C12_PartitionMountResultsIgnored ==
    /\ Cardinality(VendorMounts) <= 1
    /\ Cardinality(ProductMounts) <= 1
    /\ \A n \in VendorMounts :
          n >= 2 /\ IsCoreBind(ops[n - 1]) /\ ops[n - 1].src = "/sys" /\ ops[n - 1].ok
    /\ \A n \in ProductMounts : n >= 2 /\ n - 1 \in VendorMounts
    /\ \A n \in OpIdx : ops[n].call = "mount_tmpfs" => n >= 2 /\ n - 1 \in ProductMounts
    /\ (pc \notin {"mount_product", "done"} /\ VendorMounts /= {}) => ProductMounts /= {}
    /\ (first_run.taken /\ first_run.free = "partition" /\ Terminated) =>
          /\ exitCode = first_run.exitCode
          /\ Len(ops) = Len(first_run.ops)
          /\ \A n \in OpIdx :
                IF IsPartitionMount(ops[n])
                  THEN CallOf(ops[n]) = CallOf(first_run.ops[n])
                  ELSE ops[n] = first_run.ops[n]

C12_Witness ==
    /\ first_run.taken
    /\ first_run.free = "partition"
    /\ Terminated
    /\ exitCode = ExitSuccess
    /\ \A n \in VendorMounts \cup ProductMounts : ~ops[n].ok /\ first_run.ops[n].ok
    /\ VendorMounts /= {}
    /\ ProductMounts /= {}

CloseCalls == {n \in OpIdx : ops[n].call = "close"}

\* C18: the close() calls are the first calls of a run with argc >= 3 and
\* are all made before unshare: descriptors 0, 1 and 2, then the status
\* descriptor exactly when `stream >> fd` succeeds on arg[1] with a value
\* >= 0 (no fourth close otherwise); and a second run that meets the same
\* environment except for arg[1] and the results of close() makes the same
\* calls other than close() with the same results and ends with the same
\* code.
C18_DescriptorClosingBestEffort ==
    /\ \A n \in CloseCalls : \A m \in 1..(n - 1) : m \in CloseCalls
    /\ HasCall("unshare") =>
          LET r == StreamExtractInt(arg[1])
          IN  /\ {1, 2, 3} \subseteq CloseCalls
              /\ ops[1].fd = 0 /\ ops[2].fd = 1 /\ ops[3].fd = 2
              /\ IF ~r.fail /\ r.value >= 0
                   THEN CloseCalls = {1, 2, 3, 4} /\ ops[4].fd = r.value
                   ELSE CloseCalls = {1, 2, 3}
    /\ (first_run.taken /\ first_run.free = "close" /\ Terminated) =>
          /\ exitCode = first_run.exitCode
          /\ NonClose(ops) = NonClose(first_run.ops)

C18_Witness ==
    /\ first_run.taken
    /\ first_run.free = "close"
    /\ Terminated
    /\ exitCode = ExitSuccess
    /\ arg[1] = <<"x">>
    /\ CloseCalls = {1, 2, 3}
    /\ ~ops[2].ok
    /\ Len(first_run.ops) = Len(ops) + 1

====
